---- MODULE Spec2Model ----
(***************************************************************************)
(* Model of the RPM gauge sketch LCD1.85.Round_Gauge.ino.                  *)
(*                                                                         *)
(* Two execution contexts share the scalar rpm_value:                      *)
(*   - the rendering loop (setup, then Lvgl_Loop firing the refresh timer  *)
(*     callback and the touch callback), whose position is pc;             *)
(*   - the ESP-NOW receive context, which runs esp_now_recv_cb on every    *)
(*     frame the transport delivers (rx_pending / rx_data).                *)
(*                                                                         *)
(* Numbers: a uint32_t is kept as two 16-bit halves [hi, lo] so that the   *)
(* whole 32-bit range is representable; float quantities are kept as exact *)
(* fractions (the needle angle in units of 1/AngleDen degree, the radii in *)
(* units of 1/100 pixel); the needle segment is kept in polar form (angle  *)
(* and the two radii about the screen centre) instead of the truncated     *)
(* cosf/sinf products.                                                     *)
(***************************************************************************)
EXTENDS Integers, Sequences, FiniteSets, TLC

\* ---------------------------------------------------------------- bounds
\* longest payload the transport delivers in the model (sizeof(RpmPacket)+1)
MaxLen == 5
\* number of past values of current_scheme remembered in hist (2 cycles + 1)
HistLen == 7
\* number of timer slots of the timer facility
MaxTimers == 2
\* half-width of the input windows of the needle-geometry specification
MaxOver == 10
\* direct re-invocations of the build logged by the rebuild specification
MaxRebuilds == 2

\* ------------------------------------------------------ program constants
RPM_MIN == 0
RPM_MAX == 8000
SCALE_MIN == 0
SCALE_MAX == 8
GAUGE_START_DEG == 135
GAUGE_SWEEP_DEG == 270
\* NEEDLE_INNER_RATIO 0.20f and NEEDLE_OUTER_RATIO 0.75f, in percent
NEEDLE_INNER_RATIO == 20
NEEDLE_OUTER_RATIO == 75
ARC_WIDTH == 14
\* lv_obj_set_size(rpm_meter, 370, 370)
METER_SIZE == 370
\* sizeof(RpmPacket): one packed uint32_t
PacketSize == 4

\* static const ColorScheme color_schemes[] (0xRRGGBB as decimal)
color_schemes ==
  << [bg |-> 0, gauge_lime |-> 12058368, scale_text |-> 10080017,
      inner_start |-> 2236962, inner_end |-> 0, needle |-> 16726832,
      hub_fill |-> 1118481, hub_border |-> 12058368, rpm_text |-> 7108480,
      brand_text |-> 9406856],
     [bg |-> 1052688, gauge_lime |-> 16777215, scale_text |-> 16726832,
      inner_start |-> 4473924, inner_end |-> 1118481, needle |-> 9406856,
      hub_fill |-> 0, hub_border |-> 16777215, rpm_text |-> 16777215,
      brand_text |-> 150509711],
     [bg |-> 0, gauge_lime |-> 57599, scale_text |-> 57599,
      inner_start |-> 13124, inner_end |-> 0, needle |-> 16762880,
      hub_fill |-> 0, hub_border |-> 57599, rpm_text |-> 57599,
      brand_text |-> 9406856] >>

\* sizeof(color_schemes) / sizeof(color_schemes[0])
NumSchemes == Len(color_schemes)

\* ------------------------------------------------------------------ state
VARIABLES
  current_scheme,   \* static int current_scheme
  rpm_timer,        \* static lv_timer_t *rpm_timer: 0 is NULL, else a timer id
  timers,           \* the timer facility's list of live timers (ids)
  rpm_value,        \* volatile int32_t rpm_value
  rpm_meter,        \* static lv_obj_t *rpm_meter: "NULL", "live" or "stale"
  needle_line,      \* static lv_obj_t *needle_line
  rpm_label,        \* static lv_obj_t *rpm_label
  needle_points,    \* static lv_point_t needle_points[2], in polar form
  label_text,       \* text of the label object; <<>> while no label exists
  scene,            \* <<>> while the screen is empty, else <<cs>> of the scene
  pc,               \* position of the rendering loop
  rpm,              \* local rpm of rpm_timer_cb (0 outside the callback)
  recv_registered,  \* esp_now_register_recv_cb has been called
  rx_pending,       \* a frame has been handed to the receive context
  rx_data,          \* bytes of the frame last handed to the receive context
  hist              \* last HistLen values taken by current_scheme

vars == << current_scheme, rpm_timer, timers, rpm_value, rpm_meter,
           needle_line, rpm_label, needle_points, label_text, scene, pc, rpm,
           recv_registered, rx_pending, rx_data, hist >>

\* the variables of the rendering loop that the receive context never names
renderVars == << current_scheme, rpm_timer, timers, rpm_meter, needle_line,
                 rpm_label, needle_points, label_text, scene, pc, rpm, hist >>

TimerIds == 1..MaxTimers

\* ------------------------------------------------------------ wire format
\* bytes the transport may put in a frame: 0x00 0x1F 0x40 0x41 0xA0 0x0F 0x80 0xFF
\* 8000 = 40 1F 00 00, 8001 = 41 1F 00 00 (little endian)
SampleWords ==
  { <<0, 0, 0, 0>>,             \* 0
    <<64, 31, 0, 0>>,           \* 8000
    <<65, 31, 0, 0>>,           \* 8001
    <<160, 15, 0, 0>>,          \* 4000
    <<64, 31, 1, 0>>,           \* 65536 + 8000
    <<0, 0, 0, 128>>,           \* 2^31
    <<255, 255, 255, 255>> }    \* 2^32 - 1

\* the first n bytes of word w, continued by repeating w when n exceeds it
Frame(w, n) == [i \in 1..n |-> w[((i - 1) % Len(w)) + 1]]

\* every frame of 0..MaxLen bytes cut from a sample word
Payloads == { Frame(w, n) : w \in SampleWords, n \in 0..MaxLen }

\* memcpy(&packet, incomingData, sizeof(packet)): little-endian uint32_t
DecodeRpmPacket(data) ==
  [hi |-> data[4] * 256 + data[3], lo |-> data[2] * 256 + data[1]]

\* conversion of an int32_t to uint32_t (usual arithmetic conversions)
U32OfInt32(c) == [hi |-> (c \div 65536) % 65536, lo |-> c % 65536]

\* conversion of a uint32_t to int32_t (the store into rpm_value)
Int32OfU32(x) ==
  IF x.hi >= 32768 THEN (x.hi - 65536) * 65536 + x.lo
                   ELSE x.hi * 65536 + x.lo

\* a <= b on uint32_t
LeU32(a, b) == a.hi < b.hi \/ (a.hi = b.hi /\ a.lo <= b.lo)

\* RecvStore without the length check: the bytes a short frame lacks read 0
RecvStore_NoLenCheck(data, old) ==
  LET full == [i \in 1..PacketSize |-> IF i <= Len(data) THEN data[i] ELSE 0]
      packet == DecodeRpmPacket(full)
  IN IF LeU32(packet, U32OfInt32(RPM_MAX)) THEN Int32OfU32(packet) ELSE old

\* RecvStore with the range test written < instead of <=
RecvStore_StrictLess(data, old) ==
  IF Len(data) < PacketSize THEN old
  ELSE LET packet == DecodeRpmPacket(data) IN
       IF LeU32(packet, U32OfInt32(RPM_MAX))
          /\ packet # U32OfInt32(RPM_MAX) THEN Int32OfU32(packet)
       ELSE old

\* RecvStore in which a rejected frame clears the measurement
RecvStore_ResetOnBad(data, old) ==
  IF Len(data) < PacketSize THEN 0
  ELSE LET packet == DecodeRpmPacket(data) IN
       IF LeU32(packet, U32OfInt32(RPM_MAX)) THEN Int32OfU32(packet)
       ELSE 0

\* RecvStore with the range test done on int32_t: (int32_t)packet.rpm <= RPM_MAX
RecvStore_Signed(data, old) ==
  IF Len(data) < PacketSize THEN old
  ELSE LET packet == DecodeRpmPacket(data) IN
       IF Int32OfU32(packet) <= RPM_MAX THEN Int32OfU32(packet)
       ELSE old

\* body of esp_now_recv_cb: the value rpm_value holds after the callback
RecvStore(data, old) ==
  IF Len(data) < PacketSize THEN old
  ELSE LET packet == DecodeRpmPacket(data) IN
       IF LeU32(packet, U32OfInt32(RPM_MAX)) THEN Int32OfU32(packet)
       ELSE old

\* --------------------------------------------------------- text formatting
Digit(d) == << "0", "1", "2", "3", "4", "5", "6", "7", "8", "9" >>[d + 1]

RECURSIVE Digits(_)
Digits(n) ==
  IF n < 10 THEN << Digit(n) >>
  ELSE Append(Digits(n \div 10), Digit(n % 10))

\* lv_snprintf(buf, sizeof(buf), "%ld", (long)rpm): at most 11 of 16 chars
lv_snprintf(n) == IF n < 0 THEN << "-" >> \o Digits(0 - n) ELSE Digits(n)

\* -------------------------------------------------------- needle geometry
\* denominator of t and of the angle: 1000 * (SCALE_MAX - SCALE_MIN)
AngleDen == 1000 * (SCALE_MAX - SCALE_MIN)

\* NeedleAngle with rpm / 1000 done in integers (the float cast forgotten)
NeedleAngle_IntDiv(m) ==
  LET r1 == IF m < RPM_MIN THEN RPM_MIN ELSE m
      r2 == IF r1 > RPM_MAX THEN RPM_MAX ELSE r1
      s0 == (r2 \div 1000) * 1000
      s1 == IF s0 < SCALE_MIN * 1000 THEN SCALE_MIN * 1000 ELSE s0
      s2 == IF s1 > SCALE_MAX * 1000 THEN SCALE_MAX * 1000 ELSE s1
      t == s2 - SCALE_MIN * 1000
  IN GAUGE_START_DEG * AngleDen + t * GAUGE_SWEEP_DEG

\* angle_deg of update_needle for argument m, in units of 1/AngleDen degree
NeedleAngle(m) ==
  LET r1 == IF m < RPM_MIN THEN RPM_MIN ELSE m
      r2 == IF r1 > RPM_MAX THEN RPM_MAX ELSE r1
      \* scale_val = rpm / 1000.0f, kept times 1000
      s0 == r2
      s1 == IF s0 < SCALE_MIN * 1000 THEN SCALE_MIN * 1000 ELSE s0
      s2 == IF s1 > SCALE_MAX * 1000 THEN SCALE_MAX * 1000 ELSE s1
      \* t = (scale_val - SCALE_MIN) / (SCALE_MAX - SCALE_MIN), times AngleDen
      t == s2 - SCALE_MIN * 1000
  IN GAUGE_START_DEG * AngleDen + t * GAUGE_SWEEP_DEG

\* outer_r before rescaling, in 1/100 pixel: meter_radius - ARC_WIDTH * 0.5
GaugeRadius == (METER_SIZE \div 2) * 100 - ARC_WIDTH * 50

\* needle_points after update_needle(m) when both handles are set
NeedlePoints(m) ==
  [angle |-> NeedleAngle(m),
   inner |-> (GaugeRadius * NEEDLE_INNER_RATIO) \div 100,
   outer |-> (GaugeRadius * NEEDLE_OUTER_RATIO) \div 100]

\* zero-initialised static needle_points
ZeroPoints == [angle |-> 0, inner |-> 0, outer |-> 0]

\* update_needle(m): early return while a handle is NULL
update_needle(m) ==
  needle_points' = IF rpm_meter = "NULL" \/ needle_line = "NULL"
                   THEN needle_points
                   ELSE NeedlePoints(m)

\* ------------------------------------------------------- scheme registry
\* Advance wrapping one scheme early
Advance_WrapEarly(i) == IF i + 1 >= NumSchemes - 1 THEN 0 ELSE i + 1

\* Advance stepping backwards through the table
Advance_Backwards(i) == IF i = 0 THEN NumSchemes - 1 ELSE i - 1

\* Advance with the wrap test written > instead of >=
Advance_OffByOne(i) == IF i + 1 > NumSchemes THEN 0 ELSE i + 1

\* current_scheme++; if (current_scheme >= count) current_scheme = 0;
Advance(i) == IF i + 1 >= NumSchemes THEN 0 ELSE i + 1

\* hist with v appended, keeping the last HistLen entries
Push(h, v) == IF Len(h) < HistLen THEN Append(h, v) ELSE Append(Tail(h), v)

\* lv_obj_clean(scr) frees every object: a set handle is left dangling
Dangle(h) == IF h = "NULL" THEN "NULL" ELSE "stale"

\* ------------------------------------------------------------------- Init
\* static initialisers, before setup() runs
Init ==
  /\ current_scheme = 0
  /\ rpm_timer = 0
  /\ timers = {}
  /\ rpm_value = 0
  /\ rpm_meter = "NULL"
  /\ needle_line = "NULL"
  /\ rpm_label = "NULL"
  /\ needle_points = ZeroPoints
  /\ label_text = << >>
  /\ scene = << >>
  /\ pc = "setup"
  /\ rpm = 0
  /\ recv_registered = FALSE
  /\ rx_pending = FALSE
  /\ rx_data = << >>
  /\ hist = << 0 >>

\* ---------------------------------------------------------- rendering loop
\* setupEspNow whose failure also ends setup() before the gauge is built
setupEspNow_AbortOnFailure ==
  /\ pc = "setup"
  /\ \E ok \in BOOLEAN :
       /\ recv_registered' = ok
       /\ pc' = IF ok THEN "clean" ELSE "idle"
  /\ UNCHANGED << current_scheme, rpm_timer, timers, rpm_value, rpm_meter,
                  needle_line, rpm_label, needle_points, label_text, scene,
                  rpm, rx_pending, rx_data, hist >>

\* setup() up to setupEspNow(): esp_now_init() succeeds or fails; the receive
\* callback is registered only on success; then Lvgl_CreateRpmGauge() starts
setupEspNow ==
  /\ pc = "setup"
  /\ \E ok \in BOOLEAN : recv_registered' = ok
  /\ pc' = "clean"
  /\ UNCHANGED << current_scheme, rpm_timer, timers, rpm_value, rpm_meter,
                  needle_line, rpm_label, needle_points, label_text, scene,
                  rpm, rx_pending, rx_data, hist >>

\* Lvgl_CreateRpmGauge, lv_obj_clean(lv_scr_act())
CreateRpmGauge_clean ==
  /\ pc = "clean"
  /\ scene' = << >>
  /\ label_text' = << >>
  /\ rpm_meter' = Dangle(rpm_meter)
  /\ needle_line' = Dangle(needle_line)
  /\ rpm_label' = Dangle(rpm_label)
  /\ pc' = "create"
  /\ UNCHANGED << current_scheme, rpm_timer, timers, rpm_value,
                  needle_points, rpm, recv_registered, rx_pending, rx_data,
                  hist >>

\* CreateRpmGauge_scene that also resets the scheme cursor to the default
CreateRpmGauge_scene_ResetScheme ==
  /\ pc = "create"
  /\ current_scheme' = 0
  /\ scene' = << color_schemes[1] >>
  /\ rpm_meter' = "live"
  /\ needle_line' = "live"
  /\ rpm_label' = "live"
  /\ label_text' = << "0" >>
  /\ pc' = "needle"
  /\ UNCHANGED << rpm_timer, timers, rpm_value, needle_points, rpm,
                  recv_registered, rx_pending, rx_data, hist >>

\* CreateRpmGauge_scene that also resets the measurement with the label
CreateRpmGauge_scene_ResetRpm ==
  /\ pc = "create"
  /\ rpm_value' = 0
  /\ scene' = << color_schemes[current_scheme + 1] >>
  /\ rpm_meter' = "live"
  /\ needle_line' = "live"
  /\ rpm_label' = "live"
  /\ label_text' = << "0" >>
  /\ pc' = "needle"
  /\ UNCHANGED << current_scheme, rpm_timer, timers, needle_points, rpm,
                  recv_registered, rx_pending, rx_data, hist >>

\* CreateRpmGauge_scene that assigns a handle only while it is NULL
CreateRpmGauge_scene_KeepHandles ==
  /\ pc = "create"
  /\ scene' = << color_schemes[current_scheme + 1] >>
  /\ rpm_meter' = (IF rpm_meter = "NULL" THEN "live" ELSE rpm_meter)
  /\ needle_line' = (IF needle_line = "NULL" THEN "live" ELSE needle_line)
  /\ rpm_label' = (IF rpm_label = "NULL" THEN "live" ELSE rpm_label)
  /\ label_text' = << "0" >>
  /\ pc' = "needle"
  /\ UNCHANGED << current_scheme, rpm_timer, timers, rpm_value,
                  needle_points, rpm, recv_registered, rx_pending, rx_data,
                  hist >>

\* Lvgl_CreateRpmGauge, from the scheme lookup to the touch button: the scene
\* is built with color_schemes[current_scheme] and the label reads "0"
CreateRpmGauge_scene ==
  /\ pc = "create"
  /\ scene' = << color_schemes[current_scheme + 1] >>
  /\ rpm_meter' = "live"
  /\ needle_line' = "live"
  /\ rpm_label' = "live"
  /\ label_text' = << "0" >>
  /\ pc' = "needle"
  /\ UNCHANGED << current_scheme, rpm_timer, timers, rpm_value,
                  needle_points, rpm, recv_registered, rx_pending, rx_data,
                  hist >>

\* CreateRpmGauge_needle that places the needle on the first build only
CreateRpmGauge_needle_FirstOnly ==
  /\ pc = "needle"
  /\ IF rpm_timer = 0 THEN update_needle(rpm_value)
                      ELSE UNCHANGED needle_points
  /\ pc' = "timer"
  /\ UNCHANGED << current_scheme, rpm_timer, timers, rpm_value, rpm_meter,
                  needle_line, rpm_label, label_text, scene, rpm,
                  recv_registered, rx_pending, rx_data, hist >>

\* Lvgl_CreateRpmGauge, update_needle(rpm_value)
CreateRpmGauge_needle ==
  /\ pc = "needle"
  /\ update_needle(rpm_value)
  /\ pc' = "timer"
  /\ UNCHANGED << current_scheme, rpm_timer, timers, rpm_value, rpm_meter,
                  needle_line, rpm_label, label_text, scene, rpm,
                  recv_registered, rx_pending, rx_data, hist >>

\* CreateRpmGauge_timer_del that leaves the previous timer running
CreateRpmGauge_timer_del_Skip ==
  /\ pc = "timer"
  /\ pc' = "timer_new"
  /\ UNCHANGED << current_scheme, rpm_timer, timers, rpm_value, rpm_meter,
                  needle_line, rpm_label, needle_points, label_text, scene,
                  rpm, recv_registered, rx_pending, rx_data, hist >>

\* Lvgl_CreateRpmGauge, if (rpm_timer != NULL) { lv_timer_del; rpm_timer = NULL }
CreateRpmGauge_timer_del ==
  /\ pc = "timer"
  /\ IF rpm_timer # 0
     THEN timers' = timers \ {rpm_timer} /\ rpm_timer' = 0
     ELSE UNCHANGED << timers, rpm_timer >>
  /\ pc' = "timer_new"
  /\ UNCHANGED << current_scheme, rpm_value, rpm_meter, needle_line,
                  rpm_label, needle_points, label_text, scene, rpm,
                  recv_registered, rx_pending, rx_data, hist >>

\* CreateRpmGauge_timer_create that returns without arming a timer
CreateRpmGauge_timer_create_Forget ==
  /\ pc = "timer_new"
  /\ pc' = "idle"
  /\ UNCHANGED << current_scheme, rpm_timer, timers, rpm_value, rpm_meter,
                  needle_line, rpm_label, needle_points, label_text, scene,
                  rpm, recv_registered, rx_pending, rx_data, hist >>

\* Lvgl_CreateRpmGauge, rpm_timer = lv_timer_create(rpm_timer_cb, 100, NULL)
CreateRpmGauge_timer_create ==
  /\ pc = "timer_new"
  /\ \E id \in TimerIds \ timers :
       /\ timers' = timers \cup {id}
       /\ rpm_timer' = id
  /\ pc' = "idle"
  /\ UNCHANGED << current_scheme, rpm_value, rpm_meter, needle_line,
                  rpm_label, needle_points, label_text, scene, rpm,
                  recv_registered, rx_pending, rx_data, hist >>

\* touch_color_cycle_cb that advances the scheme and returns without rebuild
touch_color_cycle_cb_NoRebuild ==
  /\ pc = "idle"
  /\ scene # << >>
  /\ current_scheme' = Advance(current_scheme)
  /\ hist' = Push(hist, current_scheme')
  /\ UNCHANGED << pc, rpm_timer, timers, rpm_value, rpm_meter, needle_line,
                  rpm_label, needle_points, label_text, scene, rpm,
                  recv_registered, rx_pending, rx_data >>

\* touch_color_cycle_cb on LV_EVENT_CLICKED of the touch button (the only
\* event code the callback is registered for), up to the call of the rebuild
touch_color_cycle_cb ==
  /\ pc = "idle"
  /\ scene # << >>
  /\ current_scheme' = Advance(current_scheme)
  /\ hist' = Push(hist, current_scheme')
  /\ pc' = "clean"
  /\ UNCHANGED << rpm_timer, timers, rpm_value, rpm_meter, needle_line,
                  rpm_label, needle_points, label_text, scene, rpm,
                  recv_registered, rx_pending, rx_data >>

\* rpm_timer_cb fired by a live timer: int32_t rpm = rpm_value
rpm_timer_cb_read ==
  /\ pc = "idle"
  /\ timers # {}
  /\ rpm' = rpm_value
  /\ pc' = "tick"
  /\ UNCHANGED << current_scheme, rpm_timer, timers, rpm_value, rpm_meter,
                  needle_line, rpm_label, needle_points, label_text, scene,
                  recv_registered, rx_pending, rx_data, hist >>

\* rpm_timer_cb_write that reads rpm_value again for the label
rpm_timer_cb_write_Reread ==
  /\ pc = "tick"
  /\ update_needle(rpm)
  /\ label_text' = IF rpm_label # "NULL" THEN lv_snprintf(rpm_value)
                   ELSE label_text
  /\ rpm' = 0
  /\ pc' = "idle"
  /\ UNCHANGED << current_scheme, rpm_timer, timers, rpm_value, rpm_meter,
                  needle_line, rpm_label, scene, recv_registered, rx_pending,
                  rx_data, hist >>

\* rpm_timer_cb_write of a one-shot timer: the firing timer is deleted
rpm_timer_cb_write_OneShot ==
  /\ pc = "tick"
  /\ update_needle(rpm)
  /\ label_text' = IF rpm_label # "NULL" THEN lv_snprintf(rpm) ELSE label_text
  /\ timers' = timers \ {rpm_timer}
  /\ rpm' = 0
  /\ pc' = "idle"
  /\ UNCHANGED << current_scheme, rpm_timer, rpm_value, rpm_meter,
                  needle_line, rpm_label, scene, recv_registered, rx_pending,
                  rx_data, hist >>

\* rpm_timer_cb: update_needle(rpm), then the label is set to the text of rpm
rpm_timer_cb_write ==
  /\ pc = "tick"
  /\ update_needle(rpm)
  /\ label_text' = IF rpm_label # "NULL" THEN lv_snprintf(rpm) ELSE label_text
  /\ rpm' = 0
  /\ pc' = "idle"
  /\ UNCHANGED << current_scheme, rpm_timer, timers, rpm_value, rpm_meter,
                  needle_line, rpm_label, scene, recv_registered, rx_pending,
                  rx_data, hist >>

\* -------------------------------------------------------- receive context
\* the transport hands a frame to the registered receive callback
FrameArrives ==
  /\ recv_registered
  /\ ~rx_pending
  /\ \E p \in Payloads : rx_data' = p
  /\ rx_pending' = TRUE
  /\ UNCHANGED << renderVars, rpm_value, recv_registered >>

\* esp_now_recv_cb that also writes the accepted value to the label itself
esp_now_recv_cb_SetsLabel ==
  /\ rx_pending
  /\ rpm_value' = RecvStore(rx_data, rpm_value)
  /\ label_text' = IF rpm_label = "live" THEN lv_snprintf(rpm_value')
                   ELSE label_text
  /\ rx_pending' = FALSE
  /\ UNCHANGED << current_scheme, rpm_timer, timers, rpm_meter, needle_line,
                  rpm_label, needle_points, scene, pc, rpm, hist,
                  recv_registered, rx_data >>

\* esp_now_recv_cb(info, incomingData, len) on the frame handed over
esp_now_recv_cb ==
  /\ rx_pending
  /\ rpm_value' = RecvStore(rx_data, rpm_value)
  /\ rx_pending' = FALSE
  /\ UNCHANGED << renderVars, recv_registered, rx_data >>

\* ---------------------------------------------------------- specification
Next ==
  \/ setupEspNow
  \/ CreateRpmGauge_clean
  \/ CreateRpmGauge_scene
  \/ CreateRpmGauge_needle
  \/ CreateRpmGauge_timer_del
  \/ CreateRpmGauge_timer_create
  \/ touch_color_cycle_cb
  \/ rpm_timer_cb_read
  \/ rpm_timer_cb_write
  \/ FrameArrives
  \/ esp_now_recv_cb

Spec == Init /\ [][Next]_vars

\* ------------------------------------- specification of the needle geometry
\* arguments of update_needle: windows about RPM_MIN, mid-range and RPM_MAX,
\* and the ends of the int32_t range
NeedleInputs ==
  ((RPM_MIN - MaxOver)..(RPM_MIN + MaxOver))
    \cup ((4000 - MaxOver)..(4000 + MaxOver))
    \cup ((RPM_MAX - MaxOver)..(RPM_MAX + MaxOver))
    \cup {0 - 2147483647, 2147483647}

\* a built scene in which rpm_timer_cb is about to apply update_needle(rpm)
InitNeedle ==
  /\ current_scheme = 0
  /\ rpm_timer = 1
  /\ timers = {1}
  /\ rpm_value = 0
  /\ rpm_meter = "live"
  /\ needle_line = "live"
  /\ rpm_label = "live"
  /\ needle_points = NeedlePoints(0)
  /\ label_text = << "0" >>
  /\ scene = << color_schemes[1] >>
  /\ pc = "tick"
  /\ rpm \in NeedleInputs
  /\ recv_registered = FALSE
  /\ rx_pending = FALSE
  /\ rx_data = << >>
  /\ hist = << 0 >>

NextNeedle == rpm_timer_cb_write

SpecNeedle == InitNeedle /\ [][NextNeedle]_vars

\* ----------------------------------------- specification of the rebuild
\* Lvgl_CreateRpmGauge() called from the rendering loop between events with
\* current_scheme as it is; hist logs the scheme of the build once more
\* (only among the first MaxRebuilds entries after the initial one)
CreateRpmGauge_call ==
  /\ pc = "idle"
  /\ Len(hist) <= MaxRebuilds
  /\ hist' = Push(hist, current_scheme)
  /\ pc' = "clean"
  /\ UNCHANGED << current_scheme, rpm_timer, timers, rpm_value, rpm_meter,
                  needle_line, rpm_label, needle_points, label_text, scene,
                  rpm, recv_registered, rx_pending, rx_data >>

NextRebuild == Next \/ CreateRpmGauge_call

SpecRebuild == Init /\ [][NextRebuild]_vars

\* ------------------------------------- specification with fair scheduling
\* frames of the fair specification: 4000, 8000 (accepted), 8001 and a
\* two-byte frame (discarded)
LivePayloads ==
  { << 160, 15, 0, 0 >>, << 64, 31, 0, 0 >>, << 65, 31, 0, 0 >>,
    << 64, 31 >> }

\* the transport hands one of LivePayloads to the registered callback
FrameArrivesLive ==
  /\ recv_registered
  /\ ~rx_pending
  /\ \E p \in LivePayloads : rx_data' = p
  /\ rx_pending' = TRUE
  /\ UNCHANGED << renderVars, rpm_value, recv_registered >>

NextLive ==
  \/ setupEspNow
  \/ CreateRpmGauge_clean
  \/ CreateRpmGauge_scene
  \/ CreateRpmGauge_needle
  \/ CreateRpmGauge_timer_del
  \/ CreateRpmGauge_timer_create
  \/ touch_color_cycle_cb
  \/ rpm_timer_cb_read
  \/ rpm_timer_cb_write
  \/ FrameArrivesLive
  \/ esp_now_recv_cb

\* setup() and every started build or callback run to completion (they are
\* synchronous and do not block); loop() calls Lvgl_Loop() every 5 ms, so an
\* armed timer that is due again and again between events does fire; taps
\* and frames may or may not come
Fairness ==
  /\ WF_vars(setupEspNow)
  /\ WF_vars(CreateRpmGauge_clean)
  /\ WF_vars(CreateRpmGauge_scene)
  /\ WF_vars(CreateRpmGauge_needle)
  /\ WF_vars(CreateRpmGauge_timer_del)
  /\ WF_vars(CreateRpmGauge_timer_create)
  /\ WF_vars(rpm_timer_cb_write)
  /\ WF_vars(esp_now_recv_cb)
  /\ SF_vars(rpm_timer_cb_read)

SpecLive == Init /\ [][NextLive]_vars /\ Fairness

\* ================================================================ claims
\* ---------------------------------------------------------------------- C1
\* C1: in every reachable state at most one refresh timer is live, and a
\* live timer is the one rpm_timer points to: every build deletes the
\* previous timer before it creates the next.
C1_AtMostOneTimer ==
  /\ Cardinality(timers) <= 1
  /\ timers # {} => timers = {rpm_timer}

\* a tap-triggered rebuild has completed and re-armed the timer
C1_Witness ==
  /\ pc = "idle"
  /\ Len(hist) = 3
  /\ Cardinality(timers) = 1
  /\ rpm_timer \in timers

\* ---------------------------------------------------------------------- C2
\* C2: when the receive callback runs on a payload shorter than
\* sizeof(RpmPacket), whatever its bytes, rpm_value and every other
\* variable of the program keep their values.
C2_ShortPayloadIgnored ==
  [][(rx_pending /\ rx_pending' = FALSE /\ Len(rx_data) < PacketSize)
       => (rpm_value' = rpm_value
           /\ UNCHANGED << renderVars, recv_registered >>)]_vars

\* the three-byte frame 40 1F 01 has been handled while rpm_value was 4000
C2_Witness ==
  /\ ~rx_pending
  /\ rx_data = << 64, 31, 1 >>
  /\ rpm_value = 4000

\* ---------------------------------------------------------------------- C3
\* C3: when the receive callback runs on a payload of at least
\* sizeof(RpmPacket) bytes whose first four bytes encode the unsigned value
\* v (little endian), rpm_value is unchanged if v > 8000 and becomes v if
\* v <= 8000.
C3_RangeCheck ==
  [][(rx_pending /\ rx_pending' = FALSE /\ Len(rx_data) >= PacketSize)
       => LET low == rx_data[2] * 256 + rx_data[1]
              inRange == rx_data[3] = 0 /\ rx_data[4] = 0 /\ low <= 8000
          IN IF inRange THEN rpm_value' = low
                        ELSE rpm_value' = rpm_value]_vars

\* 8000 was accepted and a later frame encoding 8001 left it in force
C3_Witness ==
  /\ ~rx_pending
  /\ rx_data = << 65, 31, 0, 0 >>
  /\ rpm_value = 8000

\* ---------------------------------------------------------------------- C4
\* C4: the values current_scheme takes at successive taps follow
\* i -> (i + 1) mod NumSchemes, so the value NumSchemes * k taps after any
\* tap equals the value at that tap (k >= 0), from whichever index the
\* window starts.
C4_CycleLaw ==
  /\ hist[Len(hist)] = current_scheme
  /\ \A j \in 1..(Len(hist) - 1) : hist[j + 1] = (hist[j] + 1) % NumSchemes
  /\ \A j \in 1..Len(hist) : \A k \in 0..HistLen :
       j + NumSchemes * k <= Len(hist) => hist[j + NumSchemes * k] = hist[j]

\* at least HistLen taps have completed and the window starts at index 1
C4_Witness ==
  /\ pc = "idle"
  /\ Len(hist) = HistLen
  /\ hist[1] = 1

\* ---------------------------------------------------------------------- C5
\* C5 as stated: no transition lowers current_scheme.
C5_NeverDecreases == [][current_scheme' >= current_scheme]_vars

\* C5 amended: a transition lowers current_scheme only when a tap wraps it
\* from NumSchemes - 1 to 0; every other transition leaves it unchanged or
\* raises it by one.
C5_DecreasesOnlyOnWrap ==
  [][\/ current_scheme' = current_scheme
     \/ current_scheme' = current_scheme + 1
     \/ (pc = "idle" /\ pc' = "clean"
         /\ current_scheme = NumSchemes - 1 /\ current_scheme' = 0)]_vars

\* a tap has just wrapped the cursor from the last scheme to the first
C5_Witness ==
  /\ Len(hist) >= 2
  /\ hist[Len(hist) - 1] = NumSchemes - 1
  /\ current_scheme = 0
  /\ pc = "clean"

\* ---------------------------------------------------------------------- C6
\* C6: current_scheme is 0 until the first tap, and the only step that
\* changes it is the tap step of touch_color_cycle_cb: the startup build,
\* rebuild steps, refresh ticks, frame arrivals and the receive callback
\* leave it unchanged.
C6_OnlyTapChangesScheme ==
  /\ [](Len(hist) = 1 => current_scheme = 0)
  /\ [][current_scheme' # current_scheme
          => (pc = "idle" /\ pc' = "clean" /\ hist' # hist)]_vars

\* before any tap, a packet has been accepted and a tick has displayed it
C6_Witness ==
  /\ Len(hist) = 1
  /\ pc = "idle"
  /\ rpm_value = 8000
  /\ label_text = << "8", "0", "0", "0" >>
  /\ current_scheme = 0

\* ---------------------------------------------------------------------- C7
\* C7: update_needle applied to any integer m leaves the needle at
\* 135 + 270 * clamp(m, 0, 8000) / 8000 degrees (here in units of 1/8000
\* degree): 135 for m <= 0, 405 for m >= 8000, 270 for m = 4000, and never
\* a smaller angle than for any smaller argument.
C7_NeedleAngle ==
  [][(pc = "tick" /\ pc' = "idle")
       => LET c == IF rpm < 0 THEN 0 ELSE IF rpm > 8000 THEN 8000 ELSE rpm
          IN /\ needle_points'.angle = 135 * 8000 + 270 * c
             /\ rpm < 0 => needle_points'.angle = 135 * 8000
             /\ rpm > 8000 => needle_points'.angle = 405 * 8000
             /\ rpm = 4000 => needle_points'.angle = 270 * 8000
             /\ \A m \in NeedleInputs :
                  m <= rpm => NeedleAngle(m) <= needle_points'.angle]_vars

\* update_needle(8001) has run and left the needle at 405 degrees
C7_Witness ==
  /\ pc = "idle"
  /\ label_text = << "8", "0", "0", "1" >>
  /\ needle_points.angle = 405 * 8000

\* ---------------------------------------------------------------------- C8
\* C8: the step that completes a refresh tick sets the label to the decimal
\* text of the value rpm the tick read, and the needle to the angle of that
\* same value, whatever packets were delivered around the read: value 0
\* gives "0" and 135 degrees, value 8000 gives "8000" and 405 degrees.
C8_TickUsesOneRead ==
  [][(pc = "tick" /\ pc' = "idle")
       => /\ label_text' = lv_snprintf(rpm)
          /\ needle_points'.angle = 135 * 8000 + 270 * rpm
          /\ rpm = 0 => (label_text' = << "0" >>
                         /\ needle_points'.angle = 135 * 8000)
          /\ rpm = 8000 => (label_text' = << "8", "0", "0", "0" >>
                            /\ needle_points'.angle = 405 * 8000)]_vars

\* a tick displayed 8000 and a packet delivered since then stored 4000
C8_Witness ==
  /\ pc = "idle"
  /\ label_text = << "8", "0", "0", "0" >>
  /\ needle_points.angle = 405 * 8000
  /\ rpm_value = 4000
  /\ ~rx_pending

\* ---------------------------------------------------------------------- C9
\* C9 as stated: when a tap-triggered rebuild performs its post-build
\* update from rpm_value, the label shows the decimal text of that
\* measurement (it has not been reset to "0").
C9_LabelKeptAcrossRebuild ==
  [][(pc = "needle" /\ pc' = "timer" /\ Len(hist) > 1)
       => label_text' = lv_snprintf(rpm_value)]_vars

\* --------------------------------------------------------------------- C10
\* C10: rpm_value changes only in a step of the receive callback; every
\* step of the rendering loop (startup build, tap, rebuild steps, refresh
\* tick) leaves it unchanged.
C10_OnlyRecvWritesMeasurement ==
  [][/\ rpm_value' # rpm_value
          => (rx_pending /\ rx_pending' = FALSE /\ pc' = pc)
     /\ pc' # pc => rpm_value' = rpm_value]_vars

\* a tap-triggered rebuild has completed with measurement 4000 in force
C10_Witness ==
  /\ pc = "idle"
  /\ Len(hist) = 2
  /\ rpm_value = 4000
  /\ label_text = << "0" >>
  /\ needle_points.angle = 270 * 8000

\* --------------------------------------------------------------------- C11
\* C11: no step of the receive context (a frame handed over, or the receive
\* callback running on it), at whatever position of the rendering loop it
\* is taken, changes the scene, the three scene handles, the needle
\* segment, the label text, current_scheme, the timer handle or the timer
\* list; the callback writes rpm_value only.
C11_RecvTouchesOnlyMeasurement ==
  [][(rx_pending' # rx_pending \/ rx_data' # rx_data
        \/ rpm_value' # rpm_value)
       => UNCHANGED << renderVars, recv_registered >>]_vars

\* during the startup build, after the needle was placed for 0, the
\* callback accepted 8000 while the timer was still to be created
C11_Witness ==
  /\ pc = "timer_new"
  /\ Len(hist) = 1
  /\ needle_points.angle = 135 * 8000
  /\ rpm_value = 8000
  /\ ~rx_pending

\* --------------------------------------------------------------------- C12
\* C12: when esp_now_init() has failed, the receive callback is not
\* registered, no frame is ever handed over, rpm_value stays 0, the label
\* reads "0" whenever it exists and the needle is at 135 degrees once
\* placed; between events the scene is built and exactly one timer is
\* armed, and taps still advance the scheme.
C12_InitFailureDegrades ==
  (pc # "setup" /\ ~recv_registered)
    => /\ rpm_value = 0
       /\ ~rx_pending
       /\ rx_data = << >>
       /\ rpm = 0
       /\ label_text \in { << >>, << "0" >> }
       /\ needle_points.angle \in { 0, 135 * 8000 }
       /\ pc \in {"idle", "tick"}
            => /\ scene = << color_schemes[current_scheme + 1] >>
               /\ label_text = << "0" >>
               /\ needle_points.angle = 135 * 8000
               /\ Cardinality(timers) = 1
       /\ hist[Len(hist)] = current_scheme

\* after a failed init, three taps were taken and a tick is in progress
C12_Witness ==
  /\ ~recv_registered
  /\ pc = "tick"
  /\ Len(hist) = 4
  /\ current_scheme = 0
  /\ label_text = << "0" >>

\* --------------------------------------------------------------------- C13
\* C13: the state a build leaves depends only on current_scheme and on
\* the measurement it reads, never on what was there before: its needle
\* step leaves the scene of color_schemes[current_scheme], the label "0"
\* and the needle segment of rpm_value, and its last step leaves that scene
\* with live handles and exactly one live timer, the one rpm_timer names;
\* so a build invoked again with the same scheme and measurement, or for
\* the first time at startup, leaves the same observable state.
C13_RebuildIdempotent ==
  [][/\ (pc = "needle" /\ pc' = "timer")
          => /\ needle_points' = NeedlePoints(rpm_value)
             /\ scene' = << color_schemes[current_scheme + 1] >>
             /\ label_text' = << "0" >>
     /\ (pc = "timer_new" /\ pc' = "idle")
          => /\ scene' = << color_schemes[current_scheme + 1] >>
             /\ label_text' = << "0" >>
             /\ needle_points' = needle_points
             /\ rpm_meter' = "live" /\ needle_line' = "live"
             /\ rpm_label' = "live"
             /\ timers' = {rpm_timer'}]_vars

\* the build has completed twice in succession on scheme 1 with the
\* measurement 4000 in force
C13_Witness ==
  /\ pc = "idle"
  /\ Len(hist) = 3
  /\ hist[2] = 1 /\ hist[3] = 1
  /\ rpm_value = 4000
  /\ needle_points = NeedlePoints(4000)
  /\ label_text = << "0" >>
  /\ Cardinality(timers) = 1

\* --------------------------------------------------------------------- C14
\* C14: whenever the rendering loop is between events or inside a tick,
\* exactly one timer is live and rpm_timer names it; a timer is destroyed
\* only by the delete step of a build, and the step that follows it in the
\* rendering loop creates the replacement.
C14_AlwaysArmed ==
  /\ [](pc \in {"idle", "tick"} => timers = {rpm_timer})
  /\ [][/\ (timers \ timers' # {}) => (pc = "timer" /\ pc' = "timer_new")
        /\ (pc = "timer_new" /\ pc' # pc)
             => (pc' = "idle" /\ Cardinality(timers') = 1
                 /\ timers \subseteq timers')]_vars

\* the second tap's rebuild has destroyed the timer and not yet replaced it
C14_Witness ==
  /\ pc = "timer_new"
  /\ Len(hist) = 3
  /\ timers = {}
  /\ rpm_timer = 0

\* --------------------------------------------------------------------- C15
\* C15: a tap advances current_scheme once and enters the rebuild, a build
\* is entered only by a tap or by setup, and from the scene step of a build
\* until the next tap the live scene is the one of
\* color_schemes[current_scheme]; after two taps in a row the scene is on
\* the scheme two positions after the one before them (mod NumSchemes).
C15_TapAdvancesThenRebuilds ==
  /\ [](pc \in {"needle", "timer", "timer_new", "idle", "tick"}
          => scene = << color_schemes[current_scheme + 1] >>)
  /\ []((pc = "idle" /\ Len(hist) >= 3)
          => scene = << color_schemes[
                          ((hist[Len(hist) - 2] + 2) % NumSchemes) + 1] >>)
  /\ [][/\ hist' # hist
             => /\ pc = "idle" /\ pc' = "clean"
                /\ current_scheme' = (current_scheme + 1) % NumSchemes
        /\ (pc # "clean" /\ pc' = "clean") => (pc = "setup" \/ hist' # hist)
        /\ (pc = "clean" /\ pc' # pc) => pc' = "create"
        /\ (pc = "create" /\ pc' # pc) => pc' = "needle"
        /\ (pc = "needle" /\ pc' # pc) => pc' = "timer"
        /\ (pc = "timer" /\ pc' # pc) => pc' = "timer_new"]_vars

\* two taps have completed and the scene is that of the third scheme
C15_Witness ==
  /\ pc = "idle"
  /\ hist = << 0, 1, 2 >>
  /\ scene = << color_schemes[3] >>
  /\ current_scheme = 2

\* --------------------------------------------------------------------- C16
\* C16: rpm_value is 0 at start; a step changes it only when the receive
\* callback runs on a valid frame (at least 4 bytes, value <= 8000), and
\* then to that frame's value; every other step, a discarded frame
\* included, keeps it. So it always equals the value of the last valid
\* frame handled, or 0 if there was none, and it equals the last frame
\* handled whenever that frame was valid.
C16_LastWriteWins ==
  /\ rpm_value = 0
  /\ []((/\ ~rx_pending
         /\ Len(rx_data) >= 4
         /\ rx_data[3] = 0 /\ rx_data[4] = 0
         /\ rx_data[2] * 256 + rx_data[1] <= 8000)
          => rpm_value = rx_data[2] * 256 + rx_data[1])
  /\ [][rpm_value' = IF /\ rx_pending /\ rx_pending' = FALSE
                        /\ Len(rx_data) >= 4
                        /\ rx_data[3] = 0 /\ rx_data[4] = 0
                        /\ rx_data[2] * 256 + rx_data[1] <= 8000
                     THEN rx_data[2] * 256 + rx_data[1]
                     ELSE rpm_value]_vars

\* 4000 was accepted, a tap followed, and the frame of 2^32 - 1 handled
\* last was discarded
C16_Witness ==
  /\ ~rx_pending
  /\ rx_data = << 255, 255, 255, 255 >>
  /\ rpm_value = 4000
  /\ Len(hist) = 2
  /\ pc = "idle"

\* --------------------------------------------------------------------- C17
\* C17: in every reachable state rpm_value and the value a tick has read
\* lie in 0..8000, and the label, when it exists, is the text of a number
\* in 0..8000: one to four digits, no sign, no leading zero, at most
\* "8000".
C17_MeasurementInRange ==
  /\ rpm_value \in RPM_MIN..RPM_MAX
  /\ rpm \in RPM_MIN..RPM_MAX
  /\ label_text # << >> =>
       /\ Len(label_text) \in 1..4
       /\ \A i \in 1..Len(label_text) :
            label_text[i] \in {"0", "1", "2", "3", "4", "5", "6", "7", "8", "9"}
       /\ Len(label_text) > 1 => label_text[1] # "0"
       /\ Len(label_text) = 4 =>
            \/ label_text[1] \in {"1", "2", "3", "4", "5", "6", "7"}
            \/ label_text = << "8", "0", "0", "0" >>

\* the frame of 2^31 was handled while 8000 was in force and displayed
C17_Witness ==
  /\ ~rx_pending
  /\ rx_data = << 0, 0, 0, 128 >>
  /\ rpm_value = 8000
  /\ label_text = << "8", "0", "0", "0" >>

\* --------------------------------------------------------------------- C19
\* C19: a tick starts only between events, from a state in which the
\* build has completed: the scene of the current scheme is live, the
\* meter, needle and label handles all point into it and a timer is armed;
\* throughout the tick the handles stay live; no tick starts at setup or
\* at any position inside a build.
C19_TickOnLiveScene ==
  /\ [](pc = "tick"
          => /\ rpm_meter = "live" /\ needle_line = "live"
             /\ rpm_label = "live"
             /\ scene = << color_schemes[current_scheme + 1] >>
             /\ label_text # << >>
             /\ timers # {})
  /\ [](pc = "setup" => (scene = << >> /\ timers = {}))
  /\ [][(pc' = "tick" /\ pc # "tick")
          => /\ pc = "idle"
             /\ rpm_meter = "live" /\ needle_line = "live"
             /\ rpm_label = "live"
             /\ scene # << >>]_vars
  /\ [][(pc = "tick" /\ pc' # pc) => pc' = "idle"]_vars

\* a tick that read 8000 is in progress on the scene rebuilt by one tap
C19_Witness ==
  /\ pc = "tick"
  /\ Len(hist) = 2
  /\ rpm = 8000
  /\ rpm_meter = "live"
  /\ scene = << color_schemes[2] >>

\* --------------------------------------------------------------------- C20
\* C20: in every reachable state 0 <= current_scheme < NumSchemes, so
\* color_schemes[current_scheme] exists whenever a build looks it up; the
\* same holds of every value the cursor has taken.
C20_SchemeIndexInBounds ==
  /\ current_scheme \in 0..(NumSchemes - 1)
  /\ (current_scheme + 1) \in DOMAIN color_schemes
  /\ \A j \in 1..Len(hist) : hist[j] \in 0..(NumSchemes - 1)

\* a build is about to look up the last scheme of the table
C20_Witness ==
  /\ pc = "create"
  /\ current_scheme = NumSchemes - 1
  /\ Len(hist) = HistLen

\* --------------------------------------------------------------------- C18
\* C18: under fair firing of the armed timer, whenever rpm_value holds an
\* accepted value v, eventually the label reads the decimal text of v and
\* the needle is at v's segment, unless a later frame is accepted first;
\* taps and discarded frames in between do not prevent it.
C18_DisplayCatchesUp ==
  \A v \in {0, 4000, 8000} :
    (rpm_value = v)
      ~> (\/ (label_text = lv_snprintf(v) /\ needle_points = NeedlePoints(v))
          \/ rpm_value # v)

\* after two taps and a discarded frame of 8001, the display shows the
\* accepted 8000
C18_Witness ==
  /\ pc = "idle"
  /\ Len(hist) = 3
  /\ ~rx_pending
  /\ rx_data = << 65, 31, 0, 0 >>
  /\ rpm_value = 8000
  /\ label_text = << "8", "0", "0", "0" >>
  /\ needle_points = NeedlePoints(8000)

====
